---- MODULE Spec2Model ----
(***************************************************************************)
(* Documentation normalisation pipeline of utils/filter.py.                *)
(*                                                                         *)
(* A text is a sequence of one-character strings.  Every rewrite pass is   *)
(* an operator text -> text built from the regular expression the source   *)
(* hands to re.sub, interpreted by a backtracking matcher with the         *)
(* priorities of Python's re module (leftmost match, alternatives in       *)
(* order, greedy or lazy repetition, capture groups).                      *)
(***************************************************************************)
EXTENDS Integers, Sequences, FiniteSets, TLC

VARIABLES
    input,     \* applyFiltersForString: the text the call was given
    params,    \* applyFiltersForString: the parameter-name list of the call
    string,    \* applyFiltersForString: the local variable `string`
    pc,        \* applyFiltersForString: the statement the call is at
    passes,    \* the passes the call has run so far, in order
    methods,   \* applyFiltersForMethods: the argument `methods`
    stage,     \* applyFiltersForMethods: the statement the call is at
    tasks,     \* the running pool.map: the task indices not yet handed out
    running,   \* the running pool.map: the task indices its workers are at
    mapped,    \* the running pool.map: its result list, filled by position
    failure,   \* the running pool.map: TRUE once a task has raised
    filtered,  \* the records the filtrator kept (line 193)
    joined     \* the value applyFiltersForMethods returns

vars == <<input, params, string, pc, passes,
          methods, stage, tasks, running, mapped, failure, filtered, joined>>

strVars == <<input, params, string, pc, passes>>
poolVars == <<methods, stage, tasks, running, mapped, failure, filtered, joined>>

-----------------------------------------------------------------------------
(* Characters and character classes of Python's re on str patterns,        *)
(* restricted to ASCII.                                                    *)

LowerSeq == <<"a","b","c","d","e","f","g","h","i","j","k","l","m",
              "n","o","p","q","r","s","t","u","v","w","x","y","z">>
UpperSeq == <<"A","B","C","D","E","F","G","H","I","J","K","L","M",
              "N","O","P","Q","R","S","T","U","V","W","X","Y","Z">>
DigitSeq == <<"0","1","2","3","4","5","6","7","8","9">>

Range(f) == {f[k] : k \in DOMAIN f}

LowerCase == Range(LowerSeq)
UpperCase == Range(UpperSeq)
Letters == LowerCase \cup UpperCase
Digits == Range(DigitSeq)
\* \w
WordChars == Letters \cup Digits \cup {"_"}
\* \s
SpaceChars == {" ", "\t", "\n", "\r", "\f"}

\* str.lower() on one character
LowerChar(c) ==
    IF c \in UpperCase
    THEN LowerSeq[CHOOSE k \in DOMAIN UpperSeq : UpperSeq[k] = c]
    ELSE c

\* str.lower()
Lower(s) == [k \in DOMAIN s |-> LowerChar(s[k])] \o <<>>

\* "%d" % n for n >= 0
RECURSIVE Decimal(_)
Decimal(n) ==
    IF n < 10 THEN <<DigitSeq[n + 1]>>
    ELSE Decimal(n \div 10) \o <<DigitSeq[(n % 10) + 1]>>

\* The concatenation of the sequences of ss, by halves.
RECURSIVE Flatten(_)
Flatten(ss) ==
    IF Len(ss) = 0 THEN <<>>
    ELSE IF Len(ss) = 1 THEN ss[1]
    ELSE Flatten(SubSeq(ss, 1, Len(ss) \div 2))
         \o Flatten(SubSeq(ss, Len(ss) \div 2 + 1, Len(ss)))

\* The elements of sq at the indices `keep`, in order.
Pick(sq, keep) ==
    [m \in 1..Cardinality(keep) |->
        sq[CHOOSE k \in keep : Cardinality({j \in keep : j < k}) = m - 1]] \o <<>>

Least(S) == CHOOSE j \in S : \A k \in S : j <= k

\* s[a:b] of Python, for positions counted from 1
Slice(s, a, b) == SubSeq(s, a, b - 1)

\* Whether old occurs in s at position i.
IsAt(s, old, i) ==
    /\ i + Len(old) - 1 <= Len(s)
    /\ \A k \in DOMAIN old : s[i + k - 1] = old[k]

\* The positions a left-to-right scan visits: from each position it goes to
\* jump[position], and the last position maps to itself.  Each round doubles
\* the number of steps taken.
RECURSIVE Orbit(_, _)
Orbit(jump, seen) ==
    LET more == seen \cup {jump[i] : i \in seen}
    IN  IF more = seen THEN seen
        ELSE Orbit([i \in DOMAIN jump |-> jump[jump[i]]] \o <<>>, more)

\* The scanning loop of re.sub and str.replace: where fin[i] > 0 a match starts
\* at i and ends before fin[i]; the scan copies s[i] and goes on to i + 1 where
\* no match starts, and writes out[i] and goes on to fin[i] where one does.
Rewrite(s, fin, out) ==
    LET n == Len(s)
        step == [i \in 1..(n + 1) |->
                    IF i > n THEN i ELSE IF fin[i] > 0 THEN fin[i] ELSE i + 1] \o <<>>
        visited == Orbit(step, {1})
    IN  Flatten([i \in 1..n |->
                    IF i \notin visited THEN <<>>
                    ELSE IF fin[i] > 0 THEN out[i] ELSE <<s[i]>>] \o <<>>)

-----------------------------------------------------------------------------
(* Regular expressions: the syntax tree of a pattern.  Inf stands for an   *)
(* unbounded repetition count.                                             *)

Inf == 0 - 1

Ch(S) == [t |-> "set", cs |-> S]
NotCh(S) == [t |-> "nset", cs |-> S]
Cat(rs) == [t |-> "cat", rs |-> rs]
Alt(rs) == [t |-> "alt", rs |-> rs]
Rep(r, lo, hi, greedy) == [t |-> "rep", r |-> r, lo |-> lo, hi |-> hi, greedy |-> greedy]
Grp(n, r) == [t |-> "grp", n |-> n, r |-> r]
Lit(s) == [t |-> "lit", s |-> s]
Star(r) == Rep(r, 0, Inf, TRUE)
Plus(r) == Rep(r, 1, Inf, TRUE)
Opt(r) == Rep(r, 0, 1, TRUE)

\* No group has matched: the captures of groups 1 and 2 and of the whole
\* match (the third) are unset.
NoGroups == <<<<0, 0>>, <<0, 0>>, <<0, 0>>>>

\* The matcher's states, most preferred first, one per end position: a later
\* path to a position already reached can only repeat the first.
Dedupe(sts) ==
    Pick(sts, {k \in DOMAIN sts : \A j \in 1..(k - 1) : sts[j].p # sts[k].p})
Merge(a, b) == Dedupe(a \o b)

\* A one-character expression: a class, or an alternation of classes.
IsClass(re) == re.t \in {"set", "nset"}
OneChar(re) ==
    \/ IsClass(re)
    \/ re.t = "alt" /\ \A k \in DOMAIN re.rs : IsClass(re.rs[k])
InClass(re, c) == IF re.t = "set" THEN c \in re.cs ELSE c \notin re.cs
Accepts(re, c) ==
    IF re.t = "alt" THEN \E k \in DOMAIN re.rs : InClass(re.rs[k], c)
    ELSE InClass(re, c)

\* How many characters of s from position i on the one-character `re` accepts.
Run(re, s, i) ==
    LET stops == {j \in i..Len(s) : ~Accepts(re, s[j])}
    IN  IF stops = {} THEN Len(s) + 1 - i
        ELSE (CHOOSE j \in stops : \A k \in stops : j <= k) - i

\* Every way `re` matches s from the states sts (each a position p with the
\* captures g made so far), as the states after the match in the order a
\* backtracking matcher tries them.
RECURSIVE Ends(_, _, _)
Ends(re, s, sts) ==
    CASE sts = <<>> -> <<>>
      [] sts # <<>> /\ IsClass(re) ->
           LET ok == Pick(sts, {k \in DOMAIN sts :
                                   sts[k].p <= Len(s) /\ InClass(re, s[sts[k].p])})
           IN  [k \in DOMAIN ok |-> [p |-> ok[k].p + 1, g |-> ok[k].g]] \o <<>>
      [] sts # <<>> /\ re.t = "lit" ->
           LET ok == Pick(sts, {k \in DOMAIN sts : IsAt(s, re.s, sts[k].p)})
           IN  [k \in DOMAIN ok |-> [p |-> ok[k].p + Len(re.s), g |-> ok[k].g]] \o <<>>
      [] sts # <<>> /\ re.t = "cat" ->
           \* the first expression, then the rest from wherever it ended
           IF re.rs = <<>> THEN sts
           ELSE Ends(Cat(Tail(re.rs)), s, Ends(Head(re.rs), s, sts))
      [] Len(sts) > 1 /\ re.t \in {"alt", "grp", "rep"} ->
           \* from the preferred state first
           Dedupe(Flatten([k \in DOMAIN sts |-> Ends(re, s, <<sts[k]>>)] \o <<>>))
      [] Len(sts) = 1 /\ re.t = "alt" ->
           \* the alternatives in order
           Dedupe(Flatten([k \in DOMAIN re.rs |-> Ends(re.rs[k], s, sts)] \o <<>>))
      [] Len(sts) = 1 /\ re.t = "grp" ->
           LET es == Ends(re.r, s, sts)
           IN  [k \in DOMAIN es |->
                  [p |-> es[k].p,
                   g |-> [es[k].g EXCEPT ![re.n] = <<sts[1].p, es[k].p>>]]] \o <<>>
      [] Len(sts) = 1 /\ re.t = "rep" /\ OneChar(re.r) ->
           \* a repetition of a one-character expression ends after each
           \* count from lo to the length of the run it accepts, the longest
           \* first when greedy and the shortest first when lazy
           LET run == Run(re.r, s, sts[1].p)
               n == IF re.hi # Inf /\ re.hi < run THEN re.hi ELSE run
           IN  IF n < re.lo THEN <<>>
               ELSE [k \in 1..(n - re.lo + 1) |->
                       [p |-> sts[1].p
                                + (IF re.greedy THEN n - k + 1 ELSE re.lo + k - 1),
                        g |-> sts[1].g]] \o <<>>
      [] Len(sts) = 1 /\ re.t = "rep" /\ ~OneChar(re.r) ->
           \* one more repetition that consumes something, or none
           LET all == Ends(re.r, s, sts)
               once == Pick(all, {k \in DOMAIN all : all[k].p > sts[1].p})
               more == IF re.hi = 0 THEN <<>>
                       ELSE Ends(Rep(re.r, IF re.lo > 0 THEN re.lo - 1 ELSE 0,
                                     IF re.hi = Inf THEN Inf ELSE re.hi - 1,
                                     re.greedy),
                                 s, once)
           IN  IF re.lo > 0 THEN more
               ELSE IF re.greedy THEN Merge(more, sts)
               ELSE Merge(sts, more)

\* re.match at position i: the end states of the matches, preferred first.
MatchAt(re, s, i) == Ends(re, s, <<[p |-> i, g |-> NoGroups]>>)

\* A replacement template: literal text and group references (\1, \2).
L(s) == [lit |-> s]
G(n) == [grp |-> n]

\* The text a template stands for, given the captures g of a match in s.
Expand(tpl, s, g) ==
    Flatten([k \in DOMAIN tpl |->
               IF "lit" \in DOMAIN tpl[k] THEN tpl[k].lit
               ELSE Slice(s, g[tpl[k].grp][1], g[tpl[k].grp][2])] \o <<>>)

\* The replacements of re.sub, given for each position i the states m[i] of
\* a match that starts there, the preferred one first.
Substitute(s, tpl, m) ==
    Rewrite(s,
            [i \in DOMAIN s |-> IF m[i] = <<>> THEN 0 ELSE m[i][1].p],
            [i \in DOMAIN s |->
                IF m[i] = <<>> THEN <<>>
                ELSE Expand(tpl, s,
                            [m[i][1].g EXCEPT ![Len(NoGroups)] = <<i, m[i][1].p>>])])

\* re.sub(re, tpl, s): every non-overlapping match, leftmost first, replaced.
ReSub(re, tpl, s) == Substitute(s, tpl, [i \in DOMAIN s |-> MatchAt(re, s, i)] \o <<>>)

\* str.replace(old, new) for a non-empty old: the occurrences of old, leftmost
\* first and not overlapping, replaced.
Replace(s, old, new) ==
    Rewrite(s,
            [i \in DOMAIN s |-> IF IsAt(s, old, i) THEN i + Len(old) ELSE 0],
            [i \in DOMAIN s |-> new])

-----------------------------------------------------------------------------
(* variables/sintax.py: the token vocabulary and the punctuation set       *)
(* (spec.md, sections 4.1 and 6: upper-case token names).                  *)

HTML == <<"H","T","M","L">>
REFERENCE == <<"R","E","F","E","R","E","N","C","E">>
LINK == <<"L","I","N","K">>
URL == <<"U","R","L">>
PATH == <<"P","A","T","H">>
NUMBER == <<"N","U","M","B","E","R">>
TRUE_ == <<"T","R","U","E">>
FALSE_ == <<"F","A","L","S","E">>
NULL == <<"N","U","L","L">>
VARIABLE_ == <<"V","A","R","I","A","B","L","E">>
INVOCATION == <<"I","N","V","O","C","A","T","I","O","N">>
STABLE_REDUCTION == <<"S","T","A","B","L","E","_","R","E","D","U","C","T","I","O","N">>
NEXT == <<"N","E","X","T">>
PUNCTUATION == <<".", ",", ":", ";", "!", "?", "(", ")">>

\* " %s " % token
Spaced(token) == <<" ">> \o token \o <<" ">>

-----------------------------------------------------------------------------
(* The replacement template of re.sub (sre_parse.parse_template) for a     *)
(* pattern without groups: backslash escapes are decoded, a reference to a *)
(* group other than the whole match is an error, and so is a backslash     *)
(* before any other ASCII letter.                                          *)

Ascii ==
    <<"x00","x01","x02","x03","x04","x05","x06","BEL","BS","\t","\n","VT",
      "\f","\r","x0e","x0f","x10","x11","x12","x13","x14","x15","x16","x17",
      "x18","x19","x1a","x1b","x1c","x1d","x1e","x1f"," ","!","\"","#","$",
      "%","&","'","(",")","*","+",",","-",".","/","0","1","2","3","4","5",
      "6","7","8","9",":",";","<","=",">","?","@","A","B","C","D","E","F",
      "G","H","I","J","K","L","M","N","O","P","Q","R","S","T","U","V","W",
      "X","Y","Z","[","\\","]","^","_","BQ","a","b","c","d","e","f","g","h",
      "i","j","k","l","m","n","o","p","q","r","s","t","u","v","w","x","y",
      "z","{","|","}","~","DEL">>

\* chr(n); the characters above ASCII are not told apart
Chr(n) == IF n + 1 \in DOMAIN Ascii THEN Ascii[n + 1] ELSE "HIGH"

OctDigits == {"0","1","2","3","4","5","6","7"}
DigitValue(c) == (CHOOSE k \in DOMAIN DigitSeq : DigitSeq[k] = c) - 1

\* ESCAPES of sre_parse
Escapes == [a |-> "BEL", b |-> "BS", f |-> "\f", n |-> "\n", r |-> "\r",
            t |-> "\t", v |-> "VT"]

\* The whole match as a capture (group 0).
WholeMatch == Len(NoGroups)

TemplateError == [err |-> TRUE, items |-> <<>>]

At(t, i) == IF i \in DOMAIN t THEN t[i] ELSE "END"

\* The escape that starts with the backslash at position b of t: the item it
\* stands for and the position after it.
Escape(t, b) ==
    LET c == At(t, b + 1)
        d1 == At(t, b + 2)
        d2 == At(t, b + 3)
        Item(x, n) == [err |-> FALSE, item |-> x, next |-> n]
        Bad == [err |-> TRUE]
    IN
      CASE c = "END" -> Bad
        [] c = "g" ->
             LET closes == {k \in (b + 3)..Len(t) : t[k] = ">"}
                 close == CHOOSE k \in closes : \A j \in closes : k <= j
             IN  IF /\ d1 = "<"
                    /\ closes # {}
                    /\ close > b + 3
                    /\ \A k \in (b + 3)..(close - 1) : t[k] = "0"
                 THEN Item(G(WholeMatch), close + 1)
                 ELSE Bad
        [] c = "0" ->
             IF d1 \in OctDigits /\ d2 \in OctDigits
             THEN Item(L(<<Chr((DigitValue(d1) * 8 + DigitValue(d2)) % 256)>>), b + 4)
             ELSE IF d1 \in OctDigits
             THEN Item(L(<<Chr(DigitValue(d1))>>), b + 3)
             ELSE Item(L(<<Chr(0)>>), b + 2)
        [] c \in Digits \ {"0"} ->
             IF /\ c \in OctDigits /\ d1 \in OctDigits /\ d2 \in OctDigits
                /\ DigitValue(c) * 64 + DigitValue(d1) * 8 + DigitValue(d2) <= 255
             THEN Item(L(<<Chr(DigitValue(c) * 64 + DigitValue(d1) * 8 + DigitValue(d2))>>),
                       b + 4)
             ELSE Bad
        [] c = "\\" -> Item(L(<<"\\">>), b + 2)
        [] c \in DOMAIN Escapes -> Item(L(<<Escapes[c]>>), b + 2)
        [] c \in Letters -> Bad
        [] OTHER -> Item(L(<<"\\", c>>), b + 2)

\* The template t from position i on: the literal text up to the next
\* backslash, the escape there, and the rest.
RECURSIVE ParseTemplate(_, _)
ParseTemplate(t, i) ==
    LET bs == {j \in i..Len(t) : t[j] = "\\"}
        b == Least(bs)
        e == Escape(t, b)
        rest == ParseTemplate(t, e.next)
    IN  IF bs = {} THEN [err |-> FALSE, items |-> <<L(Slice(t, i, Len(t) + 1))>>]
        ELSE IF e.err \/ rest.err THEN TemplateError
        ELSE [err |-> FALSE, items |-> <<L(Slice(t, i, b)), e.item>> \o rest.items]

-----------------------------------------------------------------------------
(* The rewrite passes.                                                     *)

\* What a pass leaves in `string` when re.sub raises re.error.
ReError == <<"re.error">>

\* "\".*?[^\\\]\""
StringsRe ==
    Cat(<<Ch({"\""}), Rep(NotCh({"\n"}), 0, Inf, FALSE), NotCh({"\\"}), Ch({"\""})>>)

\* The replacement is " %s " % string: the text itself, read as a template.
filterStrings(s) ==
    LET tpl == ParseTemplate(Spaced(s), 1)
    IN  IF tpl.err THEN ReError ELSE ReSub(StringsRe, tpl.items, s)

\* "<[^>]*>"
TagsRe == Cat(<<Ch({"<"}), Star(NotCh({">"})), Ch({">"})>>)

filterTags(s) == ReSub(TagsRe, <<L(Spaced(HTML))>>, s)

\* "&\w+"
RefsRe == Cat(<<Ch({"&"}), Plus(Ch(WordChars))>>)

filterRefs(s) == ReSub(RefsRe, <<L(Spaced(REFERENCE))>>, s)

\* "(\{@|@\{)[^\}]*\}"
LinksRe ==
    Cat(<<Alt(<<Lit(<<"{", "@">>), Lit(<<"@", "{">>)>>), Star(NotCh({"}"})), Ch({"}"})>>)

filterLinks(s) == ReSub(LinksRe, <<L(Spaced(LINK))>>, s)

\* r"(/[a-zA-Z](\w|\.|\\\s)*){2,}"
PathsRe ==
    Rep(Cat(<<Ch({"/"}), Ch(Letters),
              Star(Alt(<<Ch(WordChars), Ch({"."}),
                         Cat(<<Ch({"\\"}), Ch(SpaceChars)>>)>>))>>),
        2, Inf, TRUE)

\* Defined at lines 49-50; no statement of applyFiltersForString calls it.
filterPaths(s) == ReSub(PathsRe, <<L(Spaced(PATH))>>, s)

\* \w+:(//|\\\\)
SchemeRe ==
    Cat(<<Plus(Ch(WordChars)), Ch({":"}),
          Alt(<<Lit(<<"/", "/">>), Lit(<<"\\", "\\">>)>>)>>)

\* r"((\w+:(//|\\\\))?(\w+[\w.@]*\.[a-z]{2,3})(\w|\.|/|\\|\?|=|-)*)|(\w+:(//|\\\\))"
URLsRe ==
    Alt(<<Cat(<<Opt(SchemeRe),
                Cat(<<Plus(Ch(WordChars)), Star(Ch(WordChars \cup {".", "@"})),
                      Ch({"."}), Rep(Ch(LowerCase), 2, 3, TRUE)>>),
                Star(Alt(<<Ch(WordChars), Ch({"."}), Ch({"/"}), Ch({"\\"}),
                           Ch({"?"}), Ch({"="}), Ch({"-"})>>))>>),
          SchemeRe>>)

filterURLs(s) == ReSub(URLsRe, <<L(Spaced(URL))>>, s)

\* string.replace(" %s " % param, " %s%d " % (VARIABLE_, i)) for each i in turn
RECURSIVE ParamNamesFrom(_, _, _)
ParamNamesFrom(s, ps, i) ==
    IF i > Len(ps) THEN s
    ELSE ParamNamesFrom(Replace(s, Spaced(ps[i]),
                                Spaced(VARIABLE_ \o Decimal(i - 1))),
                        ps, i + 1)

filterParamNames(s, ps) == ParamNamesFrom(s, ps, 1)

\* space = r"(\s|\t)*"
SpaceRe == Star(Alt(<<Ch(SpaceChars), Ch({"\t"})>>))
\* word = r"(\@|[a-zA-Z])\w*"
WordRe == Cat(<<Alt(<<Ch({"@"}), Ch(Letters)>>), Star(Ch(WordChars))>>)
\* param = r"({0}{1}{0}\=)?{0}{1}"
ParamRe == Cat(<<Opt(Cat(<<SpaceRe, WordRe, SpaceRe, Ch({"="})>>)), SpaceRe, WordRe>>)
\* regex = r"{0}{1}({0}\(({2}({0}\,{2})*)?\))+"
InvocationRe ==
    Cat(<<SpaceRe, WordRe,
          Plus(Cat(<<SpaceRe, Ch({"("}),
                     Opt(Cat(<<ParamRe, Star(Cat(<<SpaceRe, Ch({","}), ParamRe>>))>>)),
                     Ch({")"})>>))>>)

filterFunctionInvocation(s) ==
    ReSub(InvocationRe, <<L(Spaced(INVOCATION))>>, s)

\* r"(\+|-)?(\d+(\.|,)?\d+|\d+)"
NumbersRe ==
    Cat(<<Opt(Alt(<<Ch({"+"}), Ch({"-"})>>)),
          Alt(<<Cat(<<Plus(Ch(Digits)), Opt(Alt(<<Ch({"."}), Ch({","})>>)),
                      Plus(Ch(Digits))>>),
                Plus(Ch(Digits))>>)>>)

filterNumbers(s) == ReSub(NumbersRe, <<L(Spaced(NUMBER))>>, s)

TrueRe == Lit(<<"t", "r", "u", "e">>)
FalseRe == Lit(<<"f", "a", "l", "s", "e">>)
NullRe == Lit(<<"n", "u", "l", "l">>)
NilRe == Lit(<<"n", "i", "l">>)
NoneRe == Lit(<<"n", "o", "n", "e">>)

filterConstants(s) ==
    LET s1 == ReSub(TrueRe, <<L(Spaced(TRUE_))>>, s)
        s2 == ReSub(FalseRe, <<L(Spaced(FALSE_))>>, s1)
        s3 == ReSub(NullRe, <<L(Spaced(NULL))>>, s2)
        s4 == ReSub(NilRe, <<L(Spaced(NULL))>>, s3)
    IN  ReSub(NoneRe, <<L(Spaced(NULL))>>, s4)

\* r"([a-zA-Z])\.([a-zA-Z])\." -> r" {}_\1_\2_ "
StableReductionRe ==
    Cat(<<Grp(1, Ch(Letters)), Ch({"."}), Grp(2, Ch(Letters)), Ch({"."})>>)
StableReductionTemplate ==
    <<L(<<" ">> \o STABLE_REDUCTION \o <<"_">>), G(1), L(<<"_">>), G(2), L(<<"_", " ">>)>>

filterStableReduction(s) == ReSub(StableReductionRe, StableReductionTemplate, s)

\* r"{}_([^_]+)_([^_]+)_" -> r" \1.\2. "
UnpackRe ==
    Cat(<<Lit(STABLE_REDUCTION \o <<"_">>), Grp(1, Plus(NotCh({"_"}))), Ch({"_"}),
          Grp(2, Plus(NotCh({"_"}))), Ch({"_"})>>)
UnpackTemplate == <<L(<<" ">>), G(1), L(<<".">>), G(2), L(<<".", " ">>)>>

unpackStableReduction(s) == ReSub(UnpackRe, UnpackTemplate, s)

\* r"(\{})".format("|\\".join(PUNCTUATION)) -> r" \1 "
ExpandRe == Grp(1, Alt([k \in DOMAIN PUNCTUATION |-> Ch({PUNCTUATION[k]})] \o <<>>))
ExpandTemplate == <<L(<<" ">>), G(1), L(<<" ">>)>>

expandWordsAndSymbols(s) == ReSub(ExpandRe, ExpandTemplate, s)

\* "(\s|\t)+" -> " "
LongSpacesRe == Plus(Alt(<<Ch(SpaceChars), Ch({"\t"})>>))

\* filterLongSpaces with the substitution left out
filterNoSpaces(s) == s

filterLongSpaces(s) == ReSub(LongSpacesRe, <<L(<<" ">>)>>, s)

filterFirstAndEndSpaces(s) ==
    IF Len(s) = 0 THEN s
    ELSE LET s1 == IF s[1] = " " THEN Tail(s) ELSE s
         IN  IF Len(s1) = 0 THEN s1
             ELSE IF s1[Len(s1)] = " " THEN SubSeq(s1, 1, Len(s1) - 1) ELSE s1

\* re.sub(r"(.)([A-Z][a-z]+)", r"\1_\2", name), then
\* re.sub(r"([a-z0-9])([A-Z])", r"\1_\2", s1).lower()
CamelRe ==
    Cat(<<Grp(1, NotCh({"\n"})), Grp(2, Cat(<<Ch(UpperCase), Plus(Ch(LowerCase))>>))>>)
HumpRe == Cat(<<Grp(1, Ch(LowerCase \cup Digits)), Grp(2, Ch(UpperCase))>>)
UnderscoreTemplate == <<G(1), L(<<"_">>), G(2)>>

convert(name) ==
    Lower(ReSub(HumpRe, UnderscoreTemplate, ReSub(CamelRe, UnderscoreTemplate, name)))

-----------------------------------------------------------------------------
(* applyFiltersForString: the statements of lines 139-155, by name.        *)

PassOrder ==
    <<"lower", "filterStrings", "filterTags", "filterRefs", "filterLinks",
      "filterStableReduction", "filterURLs", "filterNumbers", "filterConstants",
      "filterParamNames", "filterFunctionInvocation", "expandWordsAndSymbols",
      "unpackStableReduction", "filterLongSpaces", "filterFirstAndEndSpaces">>

\* What the statement named p assigns to `string`.
RunPass(p, s, ps) ==
    CASE p = "lower" -> Lower(s)
      [] p = "filterStrings" -> filterStrings(s)
      [] p = "filterTags" -> filterTags(s)
      [] p = "filterRefs" -> filterRefs(s)
      [] p = "filterLinks" -> filterLinks(s)
      [] p = "filterStableReduction" -> filterStableReduction(s)
      [] p = "filterURLs" -> filterURLs(s)
      [] p = "filterNumbers" -> filterNumbers(s)
      [] p = "filterConstants" -> filterConstants(s)
      [] p = "filterParamNames" -> filterParamNames(s, ps)
      [] p = "filterFunctionInvocation" -> filterFunctionInvocation(s)
      [] p = "expandWordsAndSymbols" -> expandWordsAndSymbols(s)
      [] p = "unpackStableReduction" -> unpackStableReduction(s)
      [] p = "filterLongSpaces" -> filterLongSpaces(s)
      [] p = "filterFirstAndEndSpaces" -> filterFirstAndEndSpaces(s)

\* The statement that follows the statement named p; "done" is the return.
After(p) ==
    LET k == CHOOSE j \in DOMAIN PassOrder : PassOrder[j] = p
    IN  IF k = Len(PassOrder) THEN "done" ELSE PassOrder[k + 1]

\* The statements from the one named p on; a statement that raises ends the
\* call.
RECURSIVE RunFrom(_, _, _)
RunFrom(p, s, ps) ==
    IF p = "done" \/ s = ReError THEN s
    ELSE RunFrom(After(p), RunPass(p, s, ps), ps)

\* The value the call returns, ReError when it raises.
applyFiltersForString(s, ps) ==
    IF Len(s) = 0 THEN s ELSE RunFrom(PassOrder[1], s, ps)

-----------------------------------------------------------------------------
(* The inputs: texts built from at most MaxChunks pieces, the two texts of *)
(* the end-to-end examples, a few samples, and four parameter lists.       *)

MaxChunks == 2

Chunks ==
    {<<" ">>, <<"\t">>, <<"x">>, <<".">>, <<"e", ".", "g", ".">>, <<"2">>,
     <<"(", "x", ")">>, <<"n", "i", "l">>}

Example1 ==
    <<"H","e"," ","r","e","t","u","r","n","s"," ","t","h","e"," ","\"","f",
      "o","o","\""," ","v","a","l","u","e"," ","f","r","o","m"," ","h","t",
      "t","p",":","/","/","e","x","a","m","p","l","e",".","c","o","m"," ",
      "f","o","r"," ","p","a","r","a","m"," ","x",".">>

Example2 ==
    <<"S","e","e"," ","e",".","g","."," ","S","e","c","t","i","o","n"," ",
      "2"," ","f","o","r"," ","d","e","t","a","i","l","s",".">>

\* Texts with a path, with constants alone and inside words, with a digit in
\* an identifier, with every kind of whitespace, with an upper-case parameter
\* name, and with backslashes.
PathSample == <<"i","n"," ","/","u","s","r","/","l","i","b"," ","x">>
WordSample == <<"a","n","v","i","l"," ","n","i","l"," ","t","r","u","e","l","y">>
NameSample == <<"a"," ","x","2"," ","x"," ","x"," ","y"," ","t","r","u","e">>
SpaceSample == <<"\t"," ","a"," "," ","b","\n","\n","c"," ">>
UpperSample == <<"s","e","e"," ","X"," ","a","n","d"," ","Y">>
GroupSample == <<"a"," ","\\","1"," ","b">>
EscapeSample == <<"a"," ","\\","n"," ","\"","b","\"">>

Samples ==
    {PathSample, WordSample, NameSample, SpaceSample, UpperSample, GroupSample,
     EscapeSample}

RECURSIVE TextsOf(_)
TextsOf(n) ==
    IF n = 0 THEN {<<>>}
    ELSE LET shorter == TextsOf(n - 1)
         IN  shorter \cup {t \o c : t \in shorter, c \in Chunks}

Texts == TextsOf(MaxChunks) \cup {Example1, Example2} \cup Samples

ParamLists == {<<>>, <<<<"x">>>>, <<<<"y">>, <<"x">>>>, <<<<"X">>, <<"x", "2">>>>}

\* No pool is running.
PoolIdle ==
    /\ methods = <<>>
    /\ stage = "idle"
    /\ tasks = <<>>
    /\ running = {}
    /\ mapped = <<>>
    /\ failure = FALSE
    /\ filtered = <<>>
    /\ joined = <<>>

Init ==
    /\ input \in Texts
    /\ params \in ParamLists
    /\ string = input
    /\ pc = "start"
    /\ passes = <<>>
    /\ PoolIdle

\* line 138: if len(string) == 0: return string
ReturnEmpty ==
    /\ pc = "start"
    /\ Len(string) = 0
    /\ pc' = "done"
    /\ UNCHANGED <<input, params, string, passes>>
    /\ UNCHANGED poolVars

\* One statement of lines 139-155: it assigns r, the value of the statement
\* named p, to `string`, and the exception of re.sub leaves the call.
Step(p, r) ==
    /\ string' = r
    /\ passes' = Append(passes, p)
    /\ pc' = IF r = ReError THEN "raised" ELSE After(p)
    /\ UNCHANGED <<input, params>>
    /\ UNCHANGED poolVars

StepLower == pc = "start" /\ Len(string) # 0 /\ Step("lower", Lower(string))
StepFilterStrings ==
    pc = "filterStrings" /\ Step("filterStrings", filterStrings(string))
StepFilterTags == pc = "filterTags" /\ Step("filterTags", filterTags(string))
StepFilterRefs == pc = "filterRefs" /\ Step("filterRefs", filterRefs(string))
StepFilterLinks == pc = "filterLinks" /\ Step("filterLinks", filterLinks(string))
StepFilterStableReduction ==
    /\ pc = "filterStableReduction"
    /\ Step("filterStableReduction", filterStableReduction(string))
StepFilterURLs == pc = "filterURLs" /\ Step("filterURLs", filterURLs(string))
StepFilterNumbers ==
    pc = "filterNumbers" /\ Step("filterNumbers", filterNumbers(string))
StepFilterConstants ==
    pc = "filterConstants" /\ Step("filterConstants", filterConstants(string))
StepFilterParamNames ==
    /\ pc = "filterParamNames"
    /\ Step("filterParamNames", filterParamNames(string, params))
StepFilterFunctionInvocation ==
    /\ pc = "filterFunctionInvocation"
    /\ Step("filterFunctionInvocation", filterFunctionInvocation(string))
StepExpandWordsAndSymbols ==
    /\ pc = "expandWordsAndSymbols"
    /\ Step("expandWordsAndSymbols", expandWordsAndSymbols(string))
StepUnpackStableReduction ==
    /\ pc = "unpackStableReduction"
    /\ Step("unpackStableReduction", unpackStableReduction(string))
StepFilterLongSpaces ==
    pc = "filterLongSpaces" /\ Step("filterLongSpaces", filterLongSpaces(string))
StepFilterFirstAndEndSpaces ==
    /\ pc = "filterFirstAndEndSpaces"
    /\ Step("filterFirstAndEndSpaces", filterFirstAndEndSpaces(string))

Next ==
    \/ ReturnEmpty
    \/ StepLower
    \/ StepFilterStrings
    \/ StepFilterTags
    \/ StepFilterRefs
    \/ StepFilterLinks
    \/ StepFilterStableReduction
    \/ StepFilterURLs
    \/ StepFilterNumbers
    \/ StepFilterConstants
    \/ StepFilterParamNames
    \/ StepFilterFunctionInvocation
    \/ StepExpandWordsAndSymbols
    \/ StepUnpackStableReduction
    \/ StepFilterLongSpaces
    \/ StepFilterFirstAndEndSpaces

Spec == Init /\ [][Next]_vars

-----------------------------------------------------------------------------
(* Records.  A method is modelled by the names of its parameters            *)
(* (method.description.params) and the fields of its javaDoc.               *)

Method(names, head, ps, results, throws, sees) ==
    [names |-> names, head |-> head, params |-> ps, variables |-> <<>>,
     results |-> results, throws |-> throws, sees |-> sees]

\* What a task that raised hands back to pool.map.
Raised == [raised |-> TRUE]
IsRaised(r) == "raised" \in DOMAIN r

\* line 174: "@variable%d %s" % (i, text)
VariableEntry(i, text) ==
    <<"@","v","a","r","i","a","b","l","e">> \o Decimal(i) \o <<" ">> \o text

\* The record of lines 174-181, given the values `out` of the calls of
\* applyFiltersForString in the order variables, head, params, results,
\* throws, sees; one call that raises makes applyFiltersForMethod raise.
Transformed(method, out) ==
    LET n == Len(method.names)
        np == n + 1 + Len(method.params)
        nr == np + Len(method.results)
        nt == nr + Len(method.throws)
    IN  IF \E k \in DOMAIN out : out[k] = ReError THEN Raised
        ELSE [names |-> method.names,
              variables |-> [i \in 1..n |-> VariableEntry(i - 1, out[i])] \o <<>>,
              head |-> out[n + 1],
              params |-> SubSeq(out, n + 2, np),
              results |-> SubSeq(out, np + 1, nr),
              throws |-> SubSeq(out, nr + 1, nt),
              sees |-> SubSeq(out, nt + 1, Len(out))]

\* TextsOfMethod with the names left as they are
TextsUnconverted(method) ==
    method.names \o <<method.head>> \o method.params \o method.results
    \o method.throws \o method.sees

\* The texts lines 174-181 hand to applyFiltersForString: the names,
\* converted and with "_" replaced by " ", then the texts of the javaDoc.
TextsOfMethod(method) ==
    [i \in DOMAIN method.names |->
        Replace(convert(method.names[i]), <<"_">>, <<" ">>)]
    \o <<method.head>> \o method.params \o method.results
    \o method.throws \o method.sees

FilterAll(texts, names) ==
    [k \in DOMAIN texts |-> applyFiltersForString(texts[k], names)] \o <<>>

\* lines 171-182
applyFiltersForMethod(method) ==
    Transformed(method, FilterAll(TextsOfMethod(method), method.names))

\* JavaDoc.empty(): no text in the summary and no entry in any description
\* sequence.
empty(javaDoc) ==
    /\ javaDoc.head = <<>>
    /\ javaDoc.params = <<>>
    /\ javaDoc.variables = <<>>
    /\ javaDoc.results = <<>>
    /\ javaDoc.throws = <<>>
    /\ javaDoc.sees = <<>>

\* lines 185-186
isNotEmpty(method) == ~empty(method)

\* sep.join(ss)
JoinWith(sep, ss) ==
    IF ss = <<>> THEN <<>>
    ELSE
    Flatten([k \in 1..(2 * Len(ss) - 1) |->
               IF k % 2 = 1 THEN ss[(k + 1) \div 2] ELSE sep] \o <<>>)

\* lines 159-168
join(javaDoc) ==
    <<<<"head", javaDoc.head>>,
      <<"params", JoinWith(Spaced(NEXT), javaDoc.params)>>,
      <<"variables", JoinWith(Spaced(NEXT), javaDoc.variables)>>,
      <<"results", JoinWith(Spaced(NEXT), javaDoc.results)>>>>

\* The records kept by line 193, in order.
Kept(ms) == Pick(ms, {k \in DOMAIN ms : isNotEmpty(ms[k])})

-----------------------------------------------------------------------------
(* applyFiltersForMethods (lines 189-195) on a pool of NumWorkers workers.  *)
(* pool.map hands the tasks out in order, the workers finish them in any    *)
(* order, each result is stored at the position of its task, and the call   *)
(* returns when every task has finished: with the result list, or by        *)
(* raising the exception of a task that raised.                             *)

MaxMethods == 2
NumWorkers == 2

\* A record with nothing in it, one whose summary is a blank, one with a
\* summary only, one with parameters and descriptions, and one whose summary
\* makes re.sub raise.
EmptyRecord == Method(<<>>, <<>>, <<>>, <<>>, <<>>, <<>>)
BlankRecord == Method(<<>>, <<" ">>, <<>>, <<>>, <<>>, <<>>)
SummaryRecord == Method(<<>>, <<"2">>, <<>>, <<>>, <<>>, <<>>)
FullRecord ==
    Method(<<<<"a", "B">>, <<"x">>>>, <<"x">>, <<<<" ", "x", " ">>, <<>>>>,
           <<<<>>, <<".">>>>, <<<<>>>>, <<>>)
RaisingRecord == Method(<<>>, <<"\\", "1">>, <<>>, <<>>, <<>>, <<>>)

Records == {EmptyRecord, BlankRecord, SummaryRecord, FullRecord, RaisingRecord}

RECURSIVE MethodsOf(_)
MethodsOf(n) ==
    IF n = 0 THEN {<<>>}
    ELSE LET shorter == MethodsOf(n - 1)
         IN  shorter \cup {ms \o <<m>> : ms \in shorter, m \in Records}

MethodLists == MethodsOf(MaxMethods)

\* No call of applyFiltersForString is running.
StringIdle ==
    /\ input = <<>>
    /\ params = <<>>
    /\ string = <<>>
    /\ pc = "idle"
    /\ passes = <<>>

\* The slot of a task that has not finished.
Pending == [pending |-> TRUE]
IsPending(r) == "pending" \in DOMAIN r

\* Place with the results kept in the order the tasks finish
PlaceNext(results, i, r) ==
    [results EXCEPT ![Least({k \in DOMAIN results : IsPending(results[k])})] = r]

\* pool.map stores the result r of task i at position i.
Place(results, i, r) == [results EXCEPT ![i] = r]

\* pool.map(f, items) begins: one task per item.
Submit(n) ==
    /\ tasks' = [i \in 1..n |-> i] \o <<>>
    /\ running' = {}
    /\ failure' = FALSE

InitMethods ==
    /\ StringIdle
    /\ methods \in MethodLists
    /\ stage = "start"
    /\ tasks = <<>>
    /\ running = {}
    /\ mapped = <<>>
    /\ failure = FALSE
    /\ filtered = <<>>
    /\ joined = <<>>

\* line 192: methods = pool.map(applyFiltersForMethod, methods), the call
StartMap ==
    /\ stage = "start"
    /\ stage' = "map"
    /\ Submit(Len(methods))
    /\ mapped' = [i \in DOMAIN methods |-> Pending] \o <<>>
    /\ UNCHANGED <<methods, filtered, joined>>
    /\ UNCHANGED strVars

\* An idle worker takes the next task.
TakeTask ==
    /\ stage \in {"map", "join"}
    /\ tasks # <<>>
    /\ Cardinality(running) < NumWorkers
    /\ running' = running \cup {Head(tasks)}
    /\ tasks' = Tail(tasks)
    /\ UNCHANGED <<methods, stage, mapped, failure, filtered, joined>>
    /\ UNCHANGED strVars

\* A worker finishes applyFiltersForMethod on record i.
CompleteMapTask(i) ==
    /\ stage = "map"
    /\ i \in running
    /\ mapped' = Place(mapped, i, applyFiltersForMethod(methods[i]))
    /\ failure' = (failure \/ IsRaised(mapped'[i]))
    /\ running' = running \ {i}
    /\ UNCHANGED <<methods, stage, tasks, filtered, joined>>
    /\ UNCHANGED strVars

\* line 192, the return: every task has finished.  A task that raised makes
\* the call raise, which leaves applyFiltersForMethods.
MapReturn ==
    /\ stage = "map"
    /\ tasks = <<>>
    /\ running = {}
    /\ stage' = IF failure THEN "raised" ELSE "filter"
    /\ UNCHANGED <<methods, tasks, running, mapped, failure, filtered, joined>>
    /\ UNCHANGED strVars

\* line 193, and line 194 up to the call of the second pool.map
FilterAndSubmit ==
    /\ stage = "filter"
    /\ filtered' = Kept(mapped)
    /\ stage' = "join"
    /\ Submit(Len(filtered'))
    /\ joined' = [i \in DOMAIN filtered' |-> Pending] \o <<>>
    /\ UNCHANGED <<methods, mapped>>
    /\ UNCHANGED strVars

\* A worker finishes join on the javaDoc of kept record i.
CompleteJoinTask(i) ==
    /\ stage = "join"
    /\ i \in running
    /\ joined' = Place(joined, i, join(filtered[i]))
    /\ running' = running \ {i}
    /\ UNCHANGED <<methods, stage, tasks, mapped, failure, filtered>>
    /\ UNCHANGED strVars

\* lines 194-195: the second pool.map returns and `joined` is returned
JoinReturn ==
    /\ stage = "join"
    /\ tasks = <<>>
    /\ running = {}
    /\ stage' = "returned"
    /\ UNCHANGED <<methods, tasks, running, mapped, failure, filtered, joined>>
    /\ UNCHANGED strVars

NextMethods ==
    \/ StartMap
    \/ TakeTask
    \/ \E i \in 1..MaxMethods : CompleteMapTask(i)
    \/ MapReturn
    \/ FilterAndSubmit
    \/ \E i \in 1..MaxMethods : CompleteJoinTask(i)
    \/ JoinReturn

SpecMethods == InitMethods /\ [][NextMethods]_vars

-----------------------------------------------------------------------------
(* The claims about applyFiltersForString, checked under Spec.              *)

\* Whether the text w stands in s as a word: between spaces or the ends of s.
HasWord(s, w) ==
    \E i \in 1..(Len(s) - Len(w) + 1) :
        /\ IsAt(s, w, i)
        /\ i = 1 \/ s[i - 1] = " "
        /\ i + Len(w) > Len(s) \/ s[i + Len(w)] = " "

\* Whether the text w occurs in s.
Contains(s, w) == \E i \in 1..(Len(s) - Len(w) + 1) : IsAt(s, w, i)

\* The call has ended: it has returned or it has raised.
Ended == pc \in {"done", "raised"}

Expected1 ==
    <<"h","e"," ","r","e","t","u","r","n","s"," ","t","h","e"," ","S","T",
      "R","I","N","G"," ","v","a","l","u","e"," ","f","r","o","m"," ","U",
      "R","L"," ","f","o","r"," ","p","a","r","a","m"," ","V","A","R","I",
      "A","B","L","E","0"," ",".">>

\* C1: the call on the text of the first end-to-end example with the
\* parameter list ["x"] returns
\* `he returns the STRING value from URL for param VARIABLE0 .`
C1_EndToEnd ==
    (pc = "done" /\ input = Example1 /\ params = <<<<"x">>>>) => string = Expected1

\* C2: every occurrence of a parameter name as a standalone word is replaced
\* by VARIABLE<i>, so the text the call returns has no parameter name left
\* standing as a word, and a text that is nothing but the name P[i] comes
\* back as VARIABLE<i>.
C2_Substituted ==
    pc = "done" =>
        /\ \A i \in DOMAIN params :
              /\ ~HasWord(string, params[i])
              /\ input = params[i] => string = VARIABLE_ \o Decimal(i - 1)

\* C3: a path is replaced by PATH with none of its characters left, and the
\* letters of a constant inside a longer word are left as they are.
C3_Masked ==
    pc = "done" =>
        /\ input = PathSample =>
              HasWord(string, PATH) /\ ~Contains(string, <<"/">>)
        /\ input = WordSample =>
              string = <<"a","n","v","i","l"," ">> \o NULL
                       \o <<" ","t","r","u","e","l","y">>

\* C7: the text the call returns has no space at either end and no two
\* whitespace characters in a row.
C7_Whitespace ==
    pc = "done" =>
        /\ string # <<>> => string[1] \notin SpaceChars
        /\ string # <<>> => string[Len(string)] \notin SpaceChars
        /\ \A i \in 1..(Len(string) - 1) :
              ~(string[i] \in SpaceChars /\ string[i + 1] \in SpaceChars)

\* A call on a text with whitespace at both ends and in runs has returned.
C7_Witness ==
    /\ pc = "done"
    /\ input = SpaceSample
    /\ string = <<"a", " ", "b", " ", "c">>

\* C8: a call on a non-empty text ends having run every pass once, in the
\* order of PassOrder, and a call on the empty text ends having run none.
C8_Order ==
    Ended =>
        /\ pc = "done"
        /\ passes = IF input = <<>> THEN <<>> ELSE PassOrder

Abbreviation == <<"e", ".", "g", ".">>

\* C9: the text returned for a text with the abbreviation `e.g.` has
\* `e.g.` in it, and NUMBER where the number followed the abbreviation.
C9_Abbreviation ==
    (pc = "done" /\ Contains(Lower(input), Abbreviation)) =>
        /\ Contains(string, Abbreviation)
        /\ Contains(input, Abbreviation \o <<"2">>) =>
              Contains(string, Abbreviation \o <<" ">> \o NUMBER)

-----------------------------------------------------------------------------
(* The claims about applyFiltersForMethod and applyFiltersForMethods,       *)
(* checked under SpecMethods.                                               *)

TransformAll(ms) == [i \in DOMAIN ms |-> applyFiltersForMethod(ms[i])] \o <<>>
JoinAll(ms) == [k \in DOMAIN ms |-> join(ms[k])] \o <<>>

\* The records of ms whose transformation does not raise, transformed.
Transformable(ms) == Pick(ms, {k \in DOMAIN ms : ~IsRaised(ms[k])})

\* applyFiltersForMethods has ended: it has returned or it has raised.
MethodsEnded == stage \in {"returned", "raised"}

\* C4: whatever the order the workers finish in, the result of the map at
\* position i is the transformation of record i, and the list returned is
\* the flattening of the transformed records the filter keeps, in the order
\* of the input.
C4_Order ==
    /\ \A i \in DOMAIN mapped :
          ~IsPending(mapped[i]) => mapped[i] = applyFiltersForMethod(methods[i])
    /\ stage = "returned" => joined = JoinAll(Kept(TransformAll(methods)))

\* The second of two different records that both survive has been
\* transformed before the first.
C4_Witness ==
    /\ stage = "map"
    /\ methods = <<FullRecord, SummaryRecord>>
    /\ IsPending(mapped[1])
    /\ ~IsPending(mapped[2])
    /\ mapped[2].head = NUMBER

\* C5: a record whose transformation raises is left out and nothing else
\* changes: the call returns, with the flattening of the other records the
\* filter keeps.
C5_Isolated ==
    MethodsEnded =>
        /\ stage = "returned"
        /\ joined = JoinAll(Kept(Transformable(TransformAll(methods))))

\* Only the summary of the record has anything in it.
SummaryOnly(method) ==
    /\ method.head # <<>>
    /\ method.names = <<>>
    /\ method.params = <<>>
    /\ method.results = <<>>
    /\ method.throws = <<>>
    /\ method.sees = <<>>

\* C6: a record is in the list returned exactly if it is not empty after
\* its transformation; a record with nothing in it is never there, and one
\* with only a summary always is.
C6_Kept ==
    MethodsEnded =>
        /\ \A i \in DOMAIN methods :
              SummaryOnly(methods[i]) =>
                  /\ stage = "returned"
                  /\ \E k \in DOMAIN joined :
                        joined[k] = join(applyFiltersForMethod(methods[i]))
        /\ stage = "returned" =>
              /\ Len(joined) = Len(Kept(mapped))
              /\ \A k \in DOMAIN joined : joined[k] # join(EmptyRecord)

\* "@variable<i> " and the text
Tagged(i, text) ==
    <<"@", "v", "a", "r", "i", "a", "b", "l", "e">> \o Decimal(i) \o <<" ">> \o text

\* The name as lower-case words with spaces between them.
SpacedWords(name) == Replace(convert(name), <<"_">>, <<" ">>)

\* The description sequences of `after` are those of `before` with every
\* entry put through the pipeline.
SameShape(before, after) ==
    /\ after.params = FilterAll(before.params, before.names)
    /\ after.results = FilterAll(before.results, before.names)
    /\ after.throws = FilterAll(before.throws, before.names)
    /\ after.sees = FilterAll(before.sees, before.names)

\* The result of a task that has finished without raising.
IsRecord(r) == ~IsPending(r) /\ ~IsRaised(r)

\* C10, as amended: a transformed record has one variable per parameter, in
\* the order of the parameters; entry i is "@variable<i> " followed by what
\* applyFiltersForString returns for the name as spaced lower-case words and
\* the whole parameter list; the other description sequences keep their
\* length, every entry the pipeline's output for the entry at its position.
C10_Variables ==
    \A i \in DOMAIN mapped :
        IsRecord(mapped[i]) =>
            /\ Len(mapped[i].variables) = Len(methods[i].names)
            /\ \A k \in DOMAIN methods[i].names :
                  mapped[i].variables[k] =
                      Tagged(k - 1, applyFiltersForString(
                                        SpacedWords(methods[i].names[k]),
                                        methods[i].names))
            /\ SameShape(methods[i], mapped[i])

\* The record with two parameters has been transformed.
C10_Witness ==
    /\ stage = "filter"
    /\ \E i \in DOMAIN mapped :
          /\ methods[i] = FullRecord
          /\ Len(mapped[i].variables) = Len(FullRecord.names)
          /\ mapped[i].params # FullRecord.params
          /\ Len(mapped[i].results) = Len(FullRecord.results)

\* C10: as C10_Variables, but entry i is what applyFiltersForString returns
\* and nothing more.
C10_Untagged ==
    \A i \in DOMAIN mapped :
        IsRecord(mapped[i]) =>
            /\ Len(mapped[i].variables) = Len(methods[i].names)
            /\ \A k \in DOMAIN methods[i].names :
                  mapped[i].variables[k] =
                      applyFiltersForString(SpacedWords(methods[i].names[k]),
                                            methods[i].names)
            /\ SameShape(methods[i], mapped[i])

====
